---- MODULE Spec2Model ----
(***************************************************************************)
(* Model of the two pipeline scripts                                       *)
(*   scripts/1_format_RM.py   format_repeatmasker_output   (Stage A)       *)
(*   scripts/2_add_TEclass.py add_family_column            (Stage B)       *)
(*                                                                         *)
(* A text line is a sequence of one-character strings, without its line    *)
(* terminator.  A file is a record [exists, lines].  The string functions  *)
(* of the scripts (str.strip, str.split('\t'), re.sub(r'\s+','\t',..),     *)
(* re.search(r'Motif:([^"\s]+)',..)) are operators on such sequences.      *)
(***************************************************************************)
EXTENDS Integers, Sequences, FiniteSets, TLC

VARIABLES
    stage,                \* "A" or "B": which script this run is
    pc,                   \* position in the function body
    exc,                  \* exception in flight inside the try block
    stdout,               \* messages printed so far
    \* ---- Stage A ----
    input_file,           \* the RepeatMasker report on disk
    main_outfile,         \* main_output_file on disk
    extra_outfile,        \* extra_output_file on disk
    data_lines,           \* all_lines[3:] of the current run
    ai,                   \* index of the next element of data_lines
    run,                  \* 1: first run, 2: run on the first run's main output
    pre_main,             \* main_output_file as it was before the call (history)
    pre_extra,            \* extra_output_file as it was before the call (history)
    first_main,           \* main output of the first run (history)
    first_extra,          \* side output of the first run (history)
    \* ---- Stage B ----
    family_list_file,     \* the lookup file on disk
    gff_input_file,       \* the GFF file on disk
    output_file,          \* output_file on disk
    pre_output,           \* output_file as it was before the call (history)
    gff_opened,           \* whether open(gff_input_file) has succeeded
    motif_to_family,      \* the lookup dictionary
    li,                   \* index of the next lookup line
    gi,                   \* index of the next GFF line
    found_count,
    unknown_count,
    unknown_motifs_found,
    motifs_in_gff,
    written               \* for each output line, the index of its GFF line (history)

varsA == <<input_file, main_outfile, extra_outfile, data_lines, ai, run,
           pre_main, pre_extra, first_main, first_extra>>
varsB == <<family_list_file, gff_input_file, output_file, pre_output, gff_opened,
           motif_to_family, li, gi, found_count, unknown_count,
           unknown_motifs_found, motifs_in_gff, written>>
vars == <<stage, pc, exc, stdout, varsA, varsB>>

(***************************************************************************)
(* Bounds of the model                                                     *)
(***************************************************************************)
MaxDataLines == 4      \* lines of a report after its 3 header lines
MaxLookupLines == 2    \* lines of a lookup file
MaxGffLines == 2       \* lines of a GFF file

(***************************************************************************)
(* Program constants                                                       *)
(***************************************************************************)
HeaderLines == 3       \* all_lines[3:]
MinColumns == 11       \* len(columns) >= 11
MinParts == 9          \* len(parts) < 9

(***************************************************************************)
(* Characters and the string functions the scripts call                    *)
(***************************************************************************)
TAB == "\t"
QUOTE == "\""
\* the characters str.strip() trims and the regex class \s matches
Whitespace == {" ", "\t", "\n", "\r", "\f"}

Absent == [exists |-> FALSE, lines |-> <<>>]
File(ls) == [exists |-> TRUE, lines |-> ls]

RECURSIVE Concat(_)
Concat(ss) == IF ss = <<>> THEN <<>> ELSE Head(ss) \o Concat(Tail(ss))

RECURSIVE LStrip(_)
LStrip(s) == IF s # <<>> /\ Head(s) \in Whitespace THEN LStrip(Tail(s)) ELSE s

RECURSIVE RStrip(_)
RStrip(s) ==
    IF s # <<>> /\ s[Len(s)] \in Whitespace THEN RStrip(SubSeq(s, 1, Len(s) - 1)) ELSE s

\* str.strip()
Strip(s) == RStrip(LStrip(s))

\* str.split('\t'): every tab separates, empty fields are kept
RECURSIVE SplitTab(_)
SplitTab(s) ==
    IF \E i \in 1..Len(s) : s[i] = TAB
    THEN LET i == CHOOSE j \in 1..Len(s) :
                      /\ s[j] = TAB
                      /\ \A k \in 1..(j - 1) : s[k] # TAB
         IN <<SubSeq(s, 1, i - 1)>> \o SplitTab(SubSeq(s, i + 1, Len(s)))
    ELSE <<s>>

\* a faulty variant of ReSubWs: every whitespace character becomes a tab of its own
RECURSIVE ReSubEachWs(_)
ReSubEachWs(s) ==
    IF s = <<>> THEN <<>>
    ELSE IF Head(s) \in Whitespace THEN <<TAB>> \o ReSubEachWs(Tail(s))
    ELSE <<Head(s)>> \o ReSubEachWs(Tail(s))

\* re.sub(r'\s+', '\t', s): every maximal whitespace run becomes one tab
RECURSIVE ReSubWs(_)
ReSubWs(s) ==
    IF s = <<>> THEN <<>>
    ELSE IF Head(s) \in Whitespace THEN <<TAB>> \o ReSubWs(LStrip(s))
    ELSE <<Head(s)>> \o ReSubWs(Tail(s))

MotifPrefix == <<"M", "o", "t", "i", "f", ":">>

\* [^"\s]
MotifChar(c) == c # QUOTE /\ c \notin Whitespace

\* the longest prefix of s made of characters of the class [^"\s]
RECURSIVE MotifRun(_)
MotifRun(s) ==
    IF s # <<>> /\ MotifChar(Head(s)) THEN <<Head(s)>> \o MotifRun(Tail(s)) ELSE <<>>

\* the positions where r'Motif:([^"\s]+)' matches in s
MatchStarts(s) ==
    {i \in 1..Len(s) :
        /\ i + Len(MotifPrefix) <= Len(s)
        /\ SubSeq(s, i, i + Len(MotifPrefix) - 1) = MotifPrefix
        /\ MotifChar(s[i + Len(MotifPrefix)])}

\* re.search(r'Motif:([^"\s]+)', s): group(1) of the leftmost match, <<>> for None
\* (group(1) of a match is never empty)
ReSearchMotif(s) ==
    IF MatchStarts(s) = {} THEN <<>>
    ELSE LET i == CHOOSE j \in MatchStarts(s) : \A k \in MatchStarts(s) : j <= k
         IN MotifRun(SubSeq(s, i + Len(MotifPrefix), Len(s)))

Msg(m, a) == [msg |-> m, arg |-> a]


(***************************************************************************)
(* Stage B: add_family_column(gff_input_file, family_list_file,            *)
(* output_file)                                                            *)
(***************************************************************************)
AttrIndex == 8         \* attributes = parts[8]

UNKNOWN == <<"U", "N", "K", "N", "O", "W", "N">>

\* motif_to_family = {}
EmptyDict == <<>>

\* motif_to_family[motif] = family
DictSet(d, k, v) == [x \in (DOMAIN d) \cup {k} |-> IF x = k THEN v ELSE d[x]]

\* a faulty variant of LookupInsert: the first line of a motif wins
LookupInsertKeepFirst(d, line) ==
    LET fields == SplitTab(Strip(line))
    IN IF Len(fields) = 2 /\ fields[1] \notin DOMAIN d
       THEN DictSet(d, fields[1], fields[2]) ELSE d

\* try: motif, family = line.strip().split('\t'); motif_to_family[motif] = family
\* except ValueError: the dictionary is left as it was.  line is already stripped.
LookupInsert(d, line) ==
    LET fields == SplitTab(Strip(line))
    IN IF Len(fields) = 2 THEN DictSet(d, fields[1], fields[2]) ELSE d

\* the unpacking raises ValueError
LookupMalformed(line) == Len(SplitTab(Strip(line))) # 2

\* line.startswith("#")
StartsWithHash(line) == line # <<>> /\ Head(line) = "#"

\* a faulty variant of GffKept: comment lines are not passed over
GffKeptWithComments(line) ==
    /\ Strip(line) # <<>>
    /\ Len(SplitTab(Strip(line))) >= MinParts

\* the three `continue` tests of the GFF loop: the line reaches outfile.write
GffKept(line) ==
    /\ ~StartsWithHash(line)
    /\ Strip(line) # <<>>
    /\ Len(SplitTab(Strip(line))) >= MinParts

\* match.group(1) for attributes = parts[8] of a kept line; <<>> when match is None
GffMotif(line) == ReSearchMotif(SplitTab(Strip(line))[AttrIndex + 1])

\* a faulty variant of FamilyToAdd: the motif itself is appended when it is not mapped
FamilyToAddEcho(d, motif) ==
    IF motif # <<>> /\ motif \in DOMAIN d THEN d[motif]
    ELSE IF motif # <<>> THEN motif ELSE UNKNOWN

\* family_to_add after the if/else on match and on `motif in motif_to_family`
FamilyToAdd(d, motif) ==
    IF motif # <<>> /\ motif \in DOMAIN d THEN d[motif] ELSE UNKNOWN

\* a faulty variant of OutputLine: the untrimmed line is written
OutputLineUntrimmed(d, line) == line \o <<TAB>> \o FamilyToAdd(d, GffMotif(line))

\* line_stripped + "\t" + family_to_add
OutputLine(d, line) == Strip(line) \o <<TAB>> \o FamilyToAdd(d, GffMotif(line))

\* ---- line 14-20: open the lookup file ----
B_OpenLookup ==
    /\ stage = "B" /\ pc = "B_start"
    /\ motif_to_family' = EmptyDict
    /\ IF family_list_file.exists
       THEN /\ pc' = "B_lookup"
            /\ li' = 1
            /\ exc' = exc
            /\ stdout' = stdout \o <<Msg("starting", <<>>), Msg("reading_map", <<>>)>>
       ELSE /\ pc' = "B_except"
            /\ li' = li
            /\ exc' = "FileNotFoundError"
            /\ stdout' = stdout \o <<Msg("starting", <<>>), Msg("reading_map", <<>>)>>
    /\ UNCHANGED <<stage, varsA, family_list_file, gff_input_file, output_file,
                   pre_output, gff_opened, gi, found_count, unknown_count,
                   unknown_motifs_found, motifs_in_gff, written>>

\* ---- line 21-29: one line of the lookup file ----
B_LookupLine ==
    /\ stage = "B" /\ pc = "B_lookup"
    /\ li <= Len(family_list_file.lines)
    /\ LET line == Strip(family_list_file.lines[li])
       IN IF line = <<>>
          THEN UNCHANGED <<motif_to_family, stdout>>
          ELSE /\ motif_to_family' = LookupInsert(motif_to_family, line)
               /\ stdout' = IF LookupMalformed(line)
                            THEN Append(stdout, Msg("warning_malformed", line))
                            ELSE stdout
    /\ li' = li + 1
    /\ UNCHANGED <<stage, pc, exc, varsA, family_list_file, gff_input_file,
                   output_file, pre_output, gff_opened, gi, found_count,
                   unknown_count, unknown_motifs_found, motifs_in_gff, written>>

\* a faulty variant of B_CheckLookup: an empty dictionary does not stop the run
B_CheckLookupNoReturn ==
    /\ stage = "B" /\ pc = "B_lookup"
    /\ li > Len(family_list_file.lines)
    /\ pc' = "B_open"
    /\ stdout' = Append(stdout, Msg("mapped", <<>>))
    /\ found_count' = 0
    /\ unknown_count' = 0
    /\ unknown_motifs_found' = {}
    /\ motifs_in_gff' = {}
    /\ UNCHANGED <<stage, exc, varsA, family_list_file, gff_input_file, output_file,
                   pre_output, gff_opened, motif_to_family, li, gi, written>>

\* ---- line 31-41: end of the lookup file; the empty-dictionary return ----
B_CheckLookup ==
    /\ stage = "B" /\ pc = "B_lookup"
    /\ li > Len(family_list_file.lines)
    /\ IF motif_to_family = EmptyDict
       THEN /\ pc' = "done"
            /\ stdout' = Append(stdout, Msg("error_empty_lookup", <<>>))
            /\ UNCHANGED <<found_count, unknown_count, unknown_motifs_found,
                           motifs_in_gff>>
       ELSE /\ pc' = "B_open"
            /\ stdout' = Append(stdout, Msg("mapped", <<>>))
            /\ found_count' = 0
            /\ unknown_count' = 0
            /\ unknown_motifs_found' = {}
            /\ motifs_in_gff' = {}
    /\ UNCHANGED <<stage, exc, varsA, family_list_file, gff_input_file, output_file,
                   pre_output, gff_opened, motif_to_family, li, gi, written>>

\* a faulty variant of B_OpenGff: the output file is opened before the GFF file
B_OpenGffOutputFirst ==
    /\ stage = "B" /\ pc = "B_open"
    /\ stdout' = Append(stdout, Msg("processing", <<>>))
    /\ output_file' = File(<<>>)
    /\ IF gff_input_file.exists
       THEN /\ gff_opened' = TRUE
            /\ gi' = 1
            /\ pc' = "B_gff"
            /\ exc' = exc
       ELSE /\ pc' = "B_except"
            /\ exc' = "FileNotFoundError"
            /\ UNCHANGED <<gff_opened, gi>>
    /\ UNCHANGED <<stage, varsA, family_list_file, gff_input_file, pre_output,
                   motif_to_family, li, found_count, unknown_count,
                   unknown_motifs_found, motifs_in_gff, written>>

\* ---- line 44-45: with open(gff_input_file, 'r'), open(output_file, 'w') ----
\* the GFF file is opened first; the output file is created or truncated only
\* after that open has succeeded
B_OpenGff ==
    /\ stage = "B" /\ pc = "B_open"
    /\ stdout' = Append(stdout, Msg("processing", <<>>))
    /\ IF gff_input_file.exists
       THEN /\ gff_opened' = TRUE
            /\ output_file' = File(<<>>)
            /\ gi' = 1
            /\ pc' = "B_gff"
            /\ exc' = exc
       ELSE /\ pc' = "B_except"
            /\ exc' = "FileNotFoundError"
            /\ UNCHANGED <<gff_opened, output_file, gi>>
    /\ UNCHANGED <<stage, varsA, family_list_file, gff_input_file, pre_output,
                   motif_to_family, li, found_count, unknown_count,
                   unknown_motifs_found, motifs_in_gff, written>>

\* a faulty variant of B_GffLine: a line with no Motif: match is not counted
B_GffLineNoMatchUncounted ==
    /\ stage = "B" /\ pc = "B_gff"
    /\ gi <= Len(gff_input_file.lines)
    /\ LET line == gff_input_file.lines[gi]
           motif == GffMotif(line)
       IN IF ~GffKept(line)
          THEN UNCHANGED <<output_file, written, found_count, unknown_count,
                           unknown_motifs_found, motifs_in_gff>>
          ELSE /\ output_file' = File(Append(output_file.lines,
                                             OutputLine(motif_to_family, line)))
               /\ written' = Append(written, gi)
               /\ IF motif # <<>>
                  THEN /\ motifs_in_gff' = motifs_in_gff \cup {motif}
                       /\ IF motif \in DOMAIN motif_to_family
                          THEN /\ found_count' = found_count + 1
                               /\ UNCHANGED <<unknown_count, unknown_motifs_found>>
                          ELSE /\ unknown_count' = unknown_count + 1
                               /\ unknown_motifs_found' = unknown_motifs_found \cup {motif}
                               /\ UNCHANGED found_count
                  ELSE UNCHANGED <<found_count, unknown_count, unknown_motifs_found,
                                   motifs_in_gff>>
    /\ gi' = gi + 1
    /\ UNCHANGED <<stage, pc, exc, stdout, varsA, family_list_file, gff_input_file,
                   pre_output, gff_opened, motif_to_family, li>>

\* ---- line 46-78: one line of the GFF file ----
B_GffLine ==
    /\ stage = "B" /\ pc = "B_gff"
    /\ gi <= Len(gff_input_file.lines)
    /\ LET line == gff_input_file.lines[gi]
           motif == GffMotif(line)
       IN IF ~GffKept(line)
          THEN UNCHANGED <<output_file, written, found_count, unknown_count,
                           unknown_motifs_found, motifs_in_gff>>
          ELSE /\ output_file' = File(Append(output_file.lines,
                                             OutputLine(motif_to_family, line)))
               /\ written' = Append(written, gi)
               /\ IF motif # <<>>
                  THEN /\ motifs_in_gff' = motifs_in_gff \cup {motif}
                       /\ IF motif \in DOMAIN motif_to_family
                          THEN /\ found_count' = found_count + 1
                               /\ UNCHANGED <<unknown_count, unknown_motifs_found>>
                          ELSE /\ unknown_count' = unknown_count + 1
                               /\ unknown_motifs_found' = unknown_motifs_found \cup {motif}
                               /\ UNCHANGED found_count
                  ELSE /\ unknown_count' = unknown_count + 1
                       /\ UNCHANGED <<found_count, unknown_motifs_found, motifs_in_gff>>
    /\ gi' = gi + 1
    /\ UNCHANGED <<stage, pc, exc, stdout, varsA, family_list_file, gff_input_file,
                   pre_output, gff_opened, motif_to_family, li>>

\* ---- line 80-100: the diagnostic report ----
B_Finish ==
    /\ stage = "B" /\ pc = "B_gff"
    /\ gi > Len(gff_input_file.lines)
    /\ pc' = "done"
    /\ stdout' = stdout \o
           (IF unknown_count > 0
            THEN <<Msg("finished", <<>>), Msg("mismatch_analysis", <<>>)>>
            ELSE <<Msg("finished", <<>>)>>)
    /\ UNCHANGED <<stage, exc, varsA, varsB>>

\* ---- line 102-103: except FileNotFoundError ----
B_Except ==
    /\ stage = "B" /\ pc = "B_except"
    /\ exc = "FileNotFoundError"
    /\ pc' = "done"
    /\ exc' = "None"
    /\ stdout' = Append(stdout, Msg("error_file_not_found", <<>>))
    /\ UNCHANGED <<stage, varsA, varsB>>


(***************************************************************************)
(* Stage A: format_repeatmasker_output(input_file, main_output_file,       *)
(* extra_output_file)                                                      *)
(***************************************************************************)
RepeatIndex == 9       \* matching_repeat = columns[9]
ClassIndex == 10       \* repeat_class_family = columns[10]

\* the header list; a column name is kept as one symbol
HeaderCols ==
    <<"SW_score", "perc_div", "perc_del", "perc_ins", "query_sequence",
      "begin", "end", "left", "strand", "matching_repeat", "repeat_class_family",
      "begin_in_repeat", "end_in_repeat", "left_in_repeat", "ID", "optional_star">>

\* "\t".join(header)
RECURSIVE JoinTab(_)
JoinTab(fs) ==
    IF fs = <<>> THEN <<>>
    ELSE IF Len(fs) = 1 THEN <<fs[1]>>
    ELSE <<fs[1], TAB>> \o JoinTab(Tail(fs))

HeaderLine == JoinTab(HeaderCols)

\* a faulty variant of DropHeader: nothing is discarded
DropHeaderNone(all_lines) == all_lines

\* data_lines = all_lines[3:]
DropHeader(all_lines) ==
    IF Len(all_lines) <= HeaderLines THEN <<>>
    ELSE SubSeq(all_lines, HeaderLines + 1, Len(all_lines))

\* tab_delimited_line = re.sub(r'\s+', '\t', clean_line)
TabDelimited(line) == ReSubWs(Strip(line))

\* a faulty variant of ExtraRow: the two columns the wrong way round
ExtraRowSwapped(columns) ==
    columns[ClassIndex + 1] \o <<TAB>> \o columns[RepeatIndex + 1]

\* f"{matching_repeat}\t{repeat_class_family}"
ExtraRow(columns) ==
    columns[RepeatIndex + 1] \o <<TAB>> \o columns[ClassIndex + 1]

\* ---- line 16-20: read the report, drop its first 3 lines ----
A_ReadInput ==
    /\ stage = "A" /\ pc = "A_start"
    /\ IF input_file.exists
       THEN /\ data_lines' = DropHeader(input_file.lines)
            /\ pc' = "A_open"
            /\ exc' = exc
       ELSE /\ pc' = "A_except"
            /\ exc' = "FileNotFoundError"
            /\ UNCHANGED data_lines
    /\ UNCHANGED <<stage, stdout, input_file, main_outfile, extra_outfile, ai, run,
                   pre_main, pre_extra, first_main, first_extra, varsB>>

\* ---- line 23-32: open both outputs for writing, write the header ----
A_OpenOutputs ==
    /\ stage = "A" /\ pc = "A_open"
    /\ main_outfile' = File(<<HeaderLine>>)
    /\ extra_outfile' = File(<<>>)
    /\ ai' = 1
    /\ pc' = "A_loop"
    /\ UNCHANGED <<stage, exc, stdout, input_file, data_lines, run,
                   pre_main, pre_extra, first_main, first_extra, varsB>>

\* ---- line 35-58: one data line ----
A_Line ==
    /\ stage = "A" /\ pc = "A_loop"
    /\ ai <= Len(data_lines)
    /\ LET clean_line == Strip(data_lines[ai])
           tab_delimited_line == TabDelimited(data_lines[ai])
           columns == SplitTab(tab_delimited_line)
       IN IF clean_line = <<>>
          THEN UNCHANGED <<main_outfile, extra_outfile, stdout>>
          ELSE /\ main_outfile' = File(Append(main_outfile.lines, tab_delimited_line))
               /\ IF Len(columns) >= MinColumns
                  THEN /\ extra_outfile' = File(Append(extra_outfile.lines,
                                                       ExtraRow(columns)))
                       /\ UNCHANGED stdout
                  ELSE /\ stdout' = Append(stdout, Msg("warning_skipped", clean_line))
                       /\ UNCHANGED extra_outfile
    /\ ai' = ai + 1
    /\ UNCHANGED <<stage, pc, exc, input_file, data_lines, run,
                   pre_main, pre_extra, first_main, first_extra, varsB>>

\* ---- line 60-62: the success messages ----
A_Finish ==
    /\ stage = "A" /\ pc = "A_loop"
    /\ ai > Len(data_lines)
    /\ pc' = "done"
    /\ stdout' = Append(stdout, Msg("success", <<>>))
    /\ UNCHANGED <<stage, exc, varsA, varsB>>

\* ---- line 64-65: except FileNotFoundError ----
A_Except ==
    /\ stage = "A" /\ pc = "A_except"
    /\ exc = "FileNotFoundError"
    /\ pc' = "done"
    /\ exc' = "None"
    /\ stdout' = Append(stdout, Msg("error_file_not_found", <<>>))
    /\ UNCHANGED <<stage, varsA, varsB>>

\* ---- line 70-92: the script is invoked again, on the main output of the
\* first run with its header line stripped ----
A_Rerun ==
    /\ stage = "A" /\ pc = "done" /\ run = 1
    /\ main_outfile.exists /\ main_outfile.lines # <<>>
    /\ exc = "None" /\ ai > 0
    /\ input_file' = File(Tail(main_outfile.lines))
    /\ first_main' = main_outfile.lines
    /\ first_extra' = extra_outfile.lines
    /\ run' = 2
    /\ pc' = "A_start"
    /\ stdout' = <<>>
    /\ ai' = 0
    /\ data_lines' = <<>>
    /\ UNCHANGED <<stage, exc, main_outfile, extra_outfile, pre_main, pre_extra, varsB>>


(***************************************************************************)
(* The inputs the runs are given                                           *)
(***************************************************************************)
SeqsUpTo(S, n) == UNION {[1..k -> S] : k \in 0..n}

\* a file left behind by an earlier run
OldFile == File(<<<<"o", "l", "d">>>>)

\* ---- RepeatMasker report lines ----
Rep(x, k) == Concat([i \in 1..k |-> x])

Tok11 == Rep(<<"x", " ">>, 9) \o <<"a", " ", "F">>
Tok12 == <<" ", " ">> \o Rep(<<"x", " ", TAB>>, 9)
             \o <<"b", " ", " ", "G", TAB, "x", " ">>
Tok10 == Rep(<<"x", " ">>, 9) \o <<"a">>
BlankLine == <<>>
WsLine == <<" ", TAB>>
TitleLine == <<"h">>

ReportLines == {Tok11, Tok12, Tok10, BlankLine, WsLine}
ReportHeaders == {<<TitleLine, TitleLine, TitleLine>>, <<Tok11, TitleLine, Tok12>>}
ReportFiles == {File(h \o d) : h \in ReportHeaders, d \in SeqsUpTo(ReportLines, MaxDataLines)}
ShortReports == {Absent, File(<<>>), File(<<TitleLine>>), File(<<Tok11, TitleLine>>)}

\* ---- lookup file lines ----
LkAF == <<"a", TAB, "F">>
LkAG == <<"a", TAB, "G">>
LkBG == <<"b", TAB, "G">>
LkBU == <<"b", TAB>> \o UNKNOWN
LkOneField == <<"a">>
LkThreeFields == <<"a", TAB, "F", TAB, "G">>
LkEmptyFamily == <<"b", TAB>>
LkPadded == <<" ", "b", TAB, "F", TAB>>

LookupLines == {LkAF, LkAG, LkBG, BlankLine, WsLine, LkOneField, LkThreeFields,
                LkEmptyFamily, LkPadded}
LookupFiles == {File(ls) : ls \in SeqsUpTo(LookupLines, MaxLookupLines)}
FewLookupFiles == {File(<<LkAF>>), File(<<LkAF, LkBU>>)}

\* ---- GFF lines ----
Motif(m) == MotifPrefix \o m
Cols8 == Rep(<<"x", TAB>>, 8)
Cols7 == Rep(<<"x", TAB>>, 7)

GffMapped == Cols8 \o Motif(<<"a">>)
GffQuoted == Cols8 \o <<"T", " ", QUOTE>> \o Motif(<<"b">>) \o <<QUOTE, " ", "1">>
GffUnmapped == Cols8 \o Motif(<<"c">>)
GffNoMotif == Cols8 \o <<"x">>
GffComment == <<"#">> \o Cols8 \o Motif(<<"a">>)
GffCommentPlain == <<"#", "x">>
GffShort == Cols7 \o Motif(<<"a">>)
GffLeadingTab == <<TAB>> \o Cols7 \o Motif(<<"a">>)
GffPadded == <<" ">> \o Cols8 \o Motif(<<"a">>) \o <<" ">>
GffMotifInTenth == Cols8 \o <<"x", TAB>> \o Motif(<<"a">>)
GffTwoMotifs == Cols8 \o Motif(<<"c">>) \o <<" ">> \o Motif(<<"a">>)
GffBareMotif == Cols8 \o MotifPrefix \o <<QUOTE, "a">>
GffIndentedHash == <<" ", "#">> \o Cols8 \o <<"x">>
GffTenCols == Cols8 \o Motif(<<"a">>) \o <<TAB, "x">>

GffLines == {GffMapped, GffQuoted, GffUnmapped, GffNoMotif, GffComment,
             GffCommentPlain, BlankLine, WsLine, GffShort, GffLeadingTab, GffPadded,
             GffMotifInTenth, GffTwoMotifs, GffBareMotif, GffIndentedHash, GffTenCols}
GffFiles == {File(ls) : ls \in SeqsUpTo(GffLines, MaxGffLines)}
FewGffFiles == {Absent, File(<<GffMapped>>), File(<<GffUnmapped, GffQuoted>>)}

(***************************************************************************)
(* Initial states: the file system before the call                         *)
(***************************************************************************)
IdleA ==
    /\ input_file = Absent /\ main_outfile = Absent /\ extra_outfile = Absent
    /\ pre_main = Absent /\ pre_extra = Absent

IdleB ==
    /\ family_list_file = Absent /\ gff_input_file = Absent
    /\ output_file = Absent /\ pre_output = Absent

InitLocals ==
    /\ exc = "None" /\ stdout = <<>>
    /\ data_lines = <<>> /\ ai = 0 /\ run = 1
    /\ first_main = <<>> /\ first_extra = <<>>
    /\ gff_opened = FALSE /\ motif_to_family = EmptyDict
    /\ li = 0 /\ gi = 0 /\ found_count = 0 /\ unknown_count = 0
    /\ unknown_motifs_found = {} /\ motifs_in_gff = {} /\ written = <<>>

InitA ==
    /\ stage = "A" /\ pc = "A_start"
    /\ \/ /\ input_file \in ReportFiles
          /\ main_outfile = Absent /\ extra_outfile = Absent
       \/ /\ input_file \in ShortReports
          /\ main_outfile \in {Absent, OldFile}
          /\ extra_outfile \in {Absent, OldFile}
    /\ pre_main = main_outfile /\ pre_extra = extra_outfile
    /\ IdleB

InitB ==
    /\ stage = "B" /\ pc = "B_start"
    /\ \/ /\ family_list_file \in LookupFiles \cup {Absent}
          /\ gff_input_file \in FewGffFiles
       \/ /\ family_list_file \in FewLookupFiles
          /\ gff_input_file \in GffFiles
    /\ output_file \in {Absent, OldFile}
    /\ pre_output = output_file
    /\ IdleA

Init == InitLocals /\ (InitA \/ InitB)

Next ==
    \/ A_ReadInput
    \/ A_OpenOutputs
    \/ A_Line
    \/ A_Finish
    \/ A_Except
    \/ A_Rerun
    \/ B_OpenLookup
    \/ B_LookupLine
    \/ B_CheckLookup
    \/ B_OpenGff
    \/ B_GffLine
    \/ B_Finish
    \/ B_Except

Spec == Init /\ [][Next]_vars


(***************************************************************************)
(* Vocabulary of the properties.  These definitions state what the         *)
(* documentation says about lines; none of them is used by an action.      *)
(***************************************************************************)
Min(a, b) == IF a <= b THEN a ELSE b

IsBlank(line) == \A i \in 1..Len(line) : line[i] \in Whitespace
IsComment(line) == Len(line) >= 1 /\ line[1] = "#"
TabCount(line) == Cardinality({i \in 1..Len(line) : line[i] = TAB})
EndsWith(s, suffix) ==
    /\ Len(s) >= Len(suffix)
    /\ SubSeq(s, Len(s) - Len(suffix) + 1, Len(s)) = suffix
StartsWith(s, prefix) ==
    /\ Len(s) >= Len(prefix)
    /\ SubSeq(s, 1, Len(prefix)) = prefix

\* the leading characters of s that are not whitespace
RECURSIVE Word(_)
Word(s) == IF s # <<>> /\ Head(s) \notin Whitespace THEN <<Head(s)>> \o Word(Tail(s)) ELSE <<>>

\* the whitespace-separated tokens of a line
RECURSIVE Tokens(_)
Tokens(s) ==
    LET t == LStrip(s)
    IN IF t = <<>> THEN <<>>
       ELSE <<Word(t)>> \o Tokens(SubSeq(t, Len(Word(t)) + 1, Len(t)))

\* fields joined by single tabs
RECURSIVE JoinFields(_)
JoinFields(fs) ==
    IF fs = <<>> THEN <<>>
    ELSE IF Len(fs) = 1 THEN fs[1]
    ELSE fs[1] \o <<TAB>> \o JoinFields(Tail(fs))

\* one `token[9] \t token[10]` row for each line with at least 11 tokens, in order
RECURSIVE SideRows(_)
SideRows(ls) ==
    IF ls = <<>> THEN <<>>
    ELSE (IF Len(Tokens(Head(ls))) >= 11
          THEN <<Tokens(Head(ls))[10] \o <<TAB>> \o Tokens(Head(ls))[11]>>
          ELSE <<>>) \o SideRows(Tail(ls))

\* one tab-joined row for each non-blank line, in order
RECURSIVE MainRows(_)
MainRows(ls) ==
    IF ls = <<>> THEN <<>>
    ELSE (IF IsBlank(Head(ls)) THEN <<>> ELSE <<JoinFields(Tokens(Head(ls)))>>)
         \o MainRows(Tail(ls))

\* the lines of a report after its first 3
AfterFirst3(ls) == [i \in 1..(IF Len(ls) > 3 THEN Len(ls) - 3 ELSE 0) |-> ls[i + 3]]

\* the Stage A run in progress has opened its outputs
AWriting == stage = "A" /\ pc \in {"A_loop", "done"} /\ ai > 0

\* the report lines the loop has been through
ADone == SubSeq(AfterFirst3(input_file.lines), 1, ai - 1)

\* every Motif:XYZ token of a line: the XYZ of every place the pattern matches
MotifTokens(line) ==
    {MotifRun(SubSeq(line, i + Len(MotifPrefix), Len(line))) : i \in MatchStarts(line)}

GffLine(i) == gff_input_file.lines[i]

\* the GFF lines the loop has been through
GffSeen == IF stage = "B" /\ pc \in {"B_gff", "done"} /\ gff_opened THEN 1..(gi - 1) ELSE {}

\* not a comment, and at least 9 tab-separated fields once trimmed
Qualifies(line) ==
    /\ ~IsComment(line)
    /\ ~IsBlank(line)
    /\ TabCount(Strip(line)) >= 8

\* the motif the pattern extracts from the 9th field of the trimmed line
Extracted(line) == ReSearchMotif(SplitTab(Strip(line))[9])

\* the output lines written for GFF line i
OutputOf(i) == {output_file.lines[k] : k \in {j \in 1..Len(written) : written[j] = i}}


(***************************************************************************)
(* Stage A properties                                                      *)
(***************************************************************************)

C4_MainOutput ==
    (stage = "A" /\ pc = "done" /\ input_file.exists) =>
        /\ Len(HeaderCols) = 16
        /\ main_outfile.exists
        /\ main_outfile.lines # <<>>
        /\ main_outfile.lines[1] = JoinTab(HeaderCols)
        /\ Tail(main_outfile.lines) = MainRows(AfterFirst3(input_file.lines))
        /\ Len(main_outfile.lines) =
               1 + Cardinality({i \in 1..Len(AfterFirst3(input_file.lines)) :
                                    ~IsBlank(AfterFirst3(input_file.lines)[i])})

\* C4 witness: a finished first run on a report with blank and non-blank data
\* lines, one of them holding a whitespace run longer than one character.
C4_Witness ==
    /\ stage = "A" /\ pc = "done" /\ run = 1 /\ input_file.exists
    /\ Len(main_outfile.lines) >= 3
    /\ Len(input_file.lines) - 3 > Len(main_outfile.lines) - 1
    /\ \E i \in 4..Len(input_file.lines) :
           /\ ~IsBlank(input_file.lines[i])
           /\ Len(JoinFields(Tokens(input_file.lines[i]))) < Len(input_file.lines[i]) - 3

\* C5 as stated: the run on the first run's main output (header line stripped)
\* ends with the same side output as the first run.
C5_Original ==
    (stage = "A" /\ pc = "done" /\ run = 2) => extra_outfile.lines = first_extra

\* the side rows that came from the first 3 data lines of the first main output
C5_Lost == SideRows(SubSeq(first_main, 2, Min(4, Len(first_main))))

\* C5 as amended: the second run discards the first 3 data lines of the first
\* main output as if they were report header lines; its side output is the
\* first run's side output without the rows that came from those 3 lines, the
\* remaining rows being the same field for field and in the same order.
C5_Amended ==
    (stage = "A" /\ pc = "done" /\ run = 2) =>
        /\ Len(C5_Lost) <= Len(first_extra)
        /\ SubSeq(first_extra, 1, Len(C5_Lost)) = C5_Lost
        /\ extra_outfile.lines = SubSeq(first_extra, Len(C5_Lost) + 1, Len(first_extra))

\* C5 witness: a finished second run that kept a side row and lost one.
C5_Witness ==
    /\ stage = "A" /\ pc = "done" /\ run = 2
    /\ Len(extra_outfile.lines) >= 1
    /\ Len(first_extra) > Len(extra_outfile.lines)


(***************************************************************************)
(* Stage B properties                                                      *)
(***************************************************************************)

\* C1 as stated: with a non-empty lookup table, for every line of the GFF input
\* that contains a Motif:XYZ token with XYZ a key of the table, the finished
\* output contains the line `input_line \t lookup[XYZ]`.
C1_Original ==
    (stage = "B" /\ pc = "done" /\ gff_opened) =>
        \A i \in 1..Len(gff_input_file.lines) :
            \A m \in MotifTokens(GffLine(i)) \cap DOMAIN motif_to_family :
                \E k \in 1..Len(output_file.lines) :
                    output_file.lines[k] = GffLine(i) \o <<TAB>> \o motif_to_family[m]

\* C1 as amended: for every GFF line that does not begin with `#`, whose trimmed
\* form (leading and trailing whitespace removed) has at least 9 tab-separated
\* fields, and in whose 9th field the first Motif:XYZ token has XYZ a key of
\* the lookup table, the output holds, for that line, `trimmed_line \t
\* lookup[XYZ]`.
C1_Amended ==
    \A i \in GffSeen :
        (/\ Qualifies(GffLine(i))
         /\ Extracted(GffLine(i)) \in DOMAIN motif_to_family) =>
            OutputOf(i) =
                {Strip(GffLine(i)) \o <<TAB>> \o motif_to_family[Extracted(GffLine(i))]}

\* C1 witness: a finished run over a GFF with a mapped line that has whitespace
\* around it.
C1_Witness ==
    /\ stage = "B" /\ pc = "done" /\ gff_opened
    /\ \E i \in GffSeen :
           /\ Qualifies(GffLine(i))
           /\ Extracted(GffLine(i)) \in DOMAIN motif_to_family
           /\ Strip(GffLine(i)) # GffLine(i)

\* C2 as stated: with a non-empty lookup table, every line of the GFF input
\* that has no Motif: token, or whose extracted motif is not a key of the
\* table, has a corresponding output line, and it ends with `\tUNKNOWN`.
C2_Original ==
    (stage = "B" /\ pc = "done" /\ gff_opened) =>
        \A i \in 1..Len(gff_input_file.lines) :
            (\/ MotifTokens(GffLine(i)) = {}
             \/ /\ Qualifies(GffLine(i))
                /\ Extracted(GffLine(i)) # <<>>
                /\ Extracted(GffLine(i)) \notin DOMAIN motif_to_family) =>
                /\ OutputOf(i) # {}
                /\ \A o \in OutputOf(i) : EndsWith(o, <<TAB>> \o UNKNOWN)

\* C2 as amended: every GFF line that is written (it does not begin with `#`
\* and its trimmed form is non-blank with at least 9 tab-separated fields) and
\* that has no Motif: token, or whose extracted motif is not a key of the
\* table, has one corresponding output line, and it ends with `\tUNKNOWN`.
C2_Amended ==
    \A i \in GffSeen :
        (/\ Qualifies(GffLine(i))
         /\ \/ MotifTokens(GffLine(i)) = {}
            \/ /\ Extracted(GffLine(i)) # <<>>
               /\ Extracted(GffLine(i)) \notin DOMAIN motif_to_family) =>
            /\ Cardinality({k \in 1..Len(written) : written[k] = i}) = 1
            /\ \A o \in OutputOf(i) : EndsWith(o, <<TAB>> \o UNKNOWN)

\* C2 witness: a finished run that wrote a line with an unmapped motif and a
\* line with no Motif: token.
C2_Witness ==
    /\ stage = "B" /\ pc = "done" /\ gff_opened
    /\ \E i \in GffSeen :
           /\ Qualifies(GffLine(i))
           /\ Extracted(GffLine(i)) # <<>>
           /\ Extracted(GffLine(i)) \notin DOMAIN motif_to_family
    /\ \E i \in GffSeen :
           Qualifies(GffLine(i)) /\ MotifTokens(GffLine(i)) = {}

\* C6: no comment line and no blank line of the GFF is the origin of an output
\* line, wherever it stands; every output line is the trimmed text, with one
\* more column, of an input line that is not a comment, is not blank and has at
\* least 9 tab-separated fields.
C6_NoCommentNoBlank ==
    (stage = "B" /\ gff_opened) =>
        /\ Len(written) = Len(output_file.lines)
        /\ \A k \in 1..Len(written) :
               /\ written[k] \in GffSeen
               /\ ~IsComment(GffLine(written[k]))
               /\ ~IsBlank(GffLine(written[k]))
               /\ TabCount(GffLine(written[k])) + 1 >= 9
               /\ StartsWith(output_file.lines[k], Strip(GffLine(written[k])) \o <<TAB>>)
               /\ \A j \in 1..(k - 1) : written[j] < written[k]
        /\ \A i \in GffSeen :
               (IsComment(GffLine(i)) \/ IsBlank(GffLine(i))) => OutputOf(i) = {}

\* C6 witness: a finished run over a GFF whose last line is a comment with a
\* mapped motif, after a line that was written.
C6_Witness ==
    /\ stage = "B" /\ pc = "done" /\ gff_opened
    /\ Len(gff_input_file.lines) = 2
    /\ IsComment(GffLine(2))
    /\ MotifTokens(GffLine(2)) \cap DOMAIN motif_to_family # {}
    /\ written = <<1>>

\* the lookup file yields no entry: every line is blank or malformed
NoValidEntry(ls) ==
    \A i \in 1..Len(ls) : IsBlank(ls[i]) \/ TabCount(Strip(ls[i])) # 1

HasMsg(m) == \E k \in 1..Len(stdout) : stdout[k].msg = m

\* C7: when the lookup file yields zero valid entries, the run reports the
\* empty-lookup error and stops once the lookup file is read: the GFF file is
\* never opened and the output path is left exactly as it was.
C7_EmptyLookup ==
    (/\ stage = "B" /\ family_list_file.exists
     /\ NoValidEntry(family_list_file.lines)
     /\ pc \notin {"B_start", "B_lookup"}) =>
        /\ pc = "done"
        /\ HasMsg("error_empty_lookup")
        /\ ~gff_opened
        /\ output_file = pre_output
        /\ exc = "None"

\* C7 witness: a run stopped on a lookup file of malformed lines only, with a
\* GFF file present and an output file from an earlier run.
C7_Witness ==
    /\ stage = "B" /\ pc = "done" /\ family_list_file.exists
    /\ Len(family_list_file.lines) >= 1
    /\ NoValidEntry(family_list_file.lines)
    /\ \E i \in 1..Len(family_list_file.lines) : ~IsBlank(family_list_file.lines[i])
    /\ gff_input_file.exists
    /\ pre_output = OldFile

LookupSeen ==
    IF stage = "B" /\ family_list_file.exists /\ pc # "B_start"
    THEN SubSeq(family_list_file.lines, 1, li - 1) ELSE <<>>

\* the last line among `valid` whose first field is motif m
LastFor(ls, valid, m, field(_)) ==
    CHOOSE i \in valid :
        /\ field(ls[i])[1] = m
        /\ \A j \in valid : field(ls[j])[1] = m => j <= i

\* the mapping the documentation describes: the motifs of the lines in `valid`,
\* each with the family of its last line
MappingOf(ls, valid, field(_)) ==
    [m \in {field(ls[i])[1] : i \in valid} |->
        field(ls[LastFor(ls, valid, m, field)])[2]]

RawFields(line) == SplitTab(line)
TrimmedFields(line) == SplitTab(Strip(line))

MalformedWarnings == {k \in 1..Len(stdout) : stdout[k].msg = "warning_malformed"}

\* C9 as stated: the mapping holds exactly the motifs of the non-blank lines
\* read so far that split into exactly two tab-separated fields, each with the
\* family of its last such line; every other non-blank line is reported as
\* malformed.
C9_Original ==
    (stage = "B" /\ family_list_file.exists /\ pc # "B_start") =>
        LET ls == LookupSeen
            valid == {i \in 1..Len(ls) : ~IsBlank(ls[i]) /\ Len(RawFields(ls[i])) = 2}
        IN /\ motif_to_family = MappingOf(ls, valid, RawFields)
           /\ Cardinality(MalformedWarnings) =
                  Cardinality({i \in 1..Len(ls) : ~IsBlank(ls[i]) /\ i \notin valid})

\* C9 as amended: the fields of a lookup line are those of the line with its
\* leading and trailing whitespace removed (a leading or trailing tab delimits
\* no empty field).  The mapping holds exactly the motifs of the non-blank
\* lines read so far whose trimmed form splits into exactly two tab-separated
\* fields, each with the family of its last such line; every other non-blank
\* line is reported as malformed, once, leaves the mapping as it was, and
\* reading goes on to the end of the file.
C9_Amended ==
    (stage = "B" /\ family_list_file.exists /\ pc # "B_start") =>
        LET ls == LookupSeen
            valid == {i \in 1..Len(ls) : ~IsBlank(ls[i]) /\ TabCount(Strip(ls[i])) = 1}
        IN /\ motif_to_family = MappingOf(ls, valid, TrimmedFields)
           /\ Cardinality(MalformedWarnings) =
                  Cardinality({i \in 1..Len(ls) : ~IsBlank(ls[i]) /\ i \notin valid})
           /\ \A i \in 1..Len(ls) :
                  (~IsBlank(ls[i]) /\ i \notin valid) =>
                      \E k \in MalformedWarnings : stdout[k].arg = Strip(ls[i])
           /\ pc # "B_lookup" => li = Len(family_list_file.lines) + 1

\* C9 witness: the lookup file is read to its end and held two lines for one
\* motif with different families.
C9_Witness ==
    /\ stage = "B" /\ family_list_file.exists /\ pc \notin {"B_start", "B_lookup"}
    /\ \E i, j \in 1..Len(family_list_file.lines) :
           /\ i < j
           /\ TabCount(Strip(family_list_file.lines[i])) = 1
           /\ TabCount(Strip(family_list_file.lines[j])) = 1
           /\ TrimmedFields(family_list_file.lines[i])[1] =
                  TrimmedFields(family_list_file.lines[j])[1]
           /\ TrimmedFields(family_list_file.lines[i])[2] #
                  TrimmedFields(family_list_file.lines[j])[2]

\* the written lines whose label came from the lookup table
FromLookup ==
    {k \in 1..Len(written) : Extracted(GffLine(written[k])) \in DOMAIN motif_to_family}

\* the written lines labelled UNKNOWN by fallback
ByFallback == (1..Len(written)) \ FromLookup

\* C10: while and after Stage B goes through the GFF, found_count +
\* unknown_count is the number of lines written, found_count the number of
\* written lines whose label came from the lookup table, unknown_count the
\* number of written lines that end in UNKNOWN by fallback; the recorded
\* not-found motifs are motifs seen in the GFF and none is a key of the table;
\* comment, blank and short lines account for no count.
C10_Counters ==
    (stage = "B" /\ gff_opened) =>
        /\ found_count + unknown_count = Len(output_file.lines)
        /\ found_count = Cardinality(FromLookup)
        /\ unknown_count = Cardinality(ByFallback)
        /\ \A k \in ByFallback : EndsWith(output_file.lines[k], <<TAB>> \o UNKNOWN)
        /\ unknown_motifs_found \subseteq motifs_in_gff
        /\ unknown_motifs_found \cap DOMAIN motif_to_family = {}
        /\ motifs_in_gff \subseteq
               {Extracted(GffLine(i)) : i \in {j \in GffSeen : Qualifies(GffLine(j))}}
        /\ found_count + unknown_count =
               Cardinality({i \in GffSeen : Qualifies(GffLine(i))})

\* C10 witness: a finished run that wrote a line with no Motif: token, counted
\* as unknown with no motif recorded, after a dropped line.
C10_Witness ==
    /\ stage = "B" /\ pc = "done" /\ gff_opened
    /\ Len(gff_input_file.lines) = 2
    /\ ~Qualifies(GffLine(1))
    /\ unknown_count = 1 /\ found_count = 0
    /\ unknown_motifs_found = {}

====
